---------------------------- MODULE Spec2Model ----------------------------
(***************************************************************************)
(* A model of IMMIGRANT_HELPER_TOOL.py: the mentor registry                *)
(* (MentorManager), the seeker records (Immigrant), the two JSON stores    *)
(* mentors.json and immigrants.json, the menus of main_menu that drive     *)
(* them, and the resource catalog (Resource).                              *)
(*                                                                         *)
(* Python strings on which the program calls lower() or strip(), or which  *)
(* it concatenates, are sequences of one-character strings, so that the    *)
(* case conversions are computed character by character.  Strings the      *)
(* program only stores and compares whole are TLA+ strings.                *)
(***************************************************************************)
EXTENDS Integers, Sequences, FiniteSets, TLC

VARIABLES
    mentors,              \* MentorManager.mentors: the registry, in insertion order
    immigrants_db,        \* main_menu's immigrants_db: email -> Immigrant
    mentors_json,         \* the content of mentors.json: a dict, in key insertion order
    immigrants_json,      \* the content of immigrants.json: email -> record
    immigrants_modified,  \* main_menu's flag
    mentors_modified,     \* main_menu's flag
    menu,                 \* the menu loop the process is in: "main", "immigrant", "volunteer", "exited"
    current_immigrant,    \* main_menu's current_immigrant, as the key of immigrants_db (<<>> outside the immigrant menu)
    op,                   \* the operation performed by the last step, its arguments and its return value
    booked,               \* history: the registry positions a find of this run has returned and no
                          \* availability update has made available since
    resource_db,          \* Resource.resource_db: location -> category -> names, in key insertion order
    out,                  \* the last call of a method of Resource: its arguments and what it reported
    resources_json,       \* the content of resources.json: location -> category -> names
    files,                \* what happens to a process that opens each store
    calls                 \* the calls of find_mentor in progress: their arguments, the line each
                          \* has reached, its loop variable and its return value

vars == <<mentors, immigrants_db, mentors_json, immigrants_json, immigrants_modified,
          mentors_modified, menu, current_immigrant, op, booked, resource_db, out,
          resources_json, files, calls>>

\* the variables of the mentor and seeker workflows, and those of the catalog
mentor_vars == <<mentors, immigrants_db, mentors_json, immigrants_json, immigrants_modified,
                 mentors_modified, menu, current_immigrant, op, booked>>
catalog_vars == <<resource_db, out>>
\* the stores as the operating system presents them, and the calls in progress
process_vars == <<resources_json, files, calls>>

----------------------------------------------------------------------------
(* Bounds of the model.                                                    *)

\* The registry holds at most MaxMentors records (registration is refused beyond).
MaxMentors == 3
\* The progress logs hold at most MaxLog entries together (no mentor is asked for beyond).
MaxLog == 2
\* The catalog holds at most MaxResources names (add_resource is not called beyond).
MaxResources == 3
\* The lists given to _selection_sort and _binary_search hold at most MaxKeys keys.
MaxKeys == 3

----------------------------------------------------------------------------
(* Strings.                                                                *)

Upper == <<"A","B","C","D","E","F","G","H","I","J","K","L","M",
           "N","O","P","Q","R","S","T","U","V","W","X","Y","Z">>
Lower == <<"a","b","c","d","e","f","g","h","i","j","k","l","m",
           "n","o","p","q","r","s","t","u","v","w","x","y","z">>

UpperSet == {Upper[i] : i \in 1..Len(Upper)}
LowerOf == [c \in UpperSet |-> Lower[CHOOSE i \in 1..Len(Upper) : Upper[i] = c]]

\* str.lower() on one character
lower_char(c) == IF c \in UpperSet THEN LowerOf[c] ELSE c

\* str.lower()
str_lower(s) == [i \in 1..Len(s) |-> lower_char(s[i])]

\* the whitespace characters of the inputs
Whitespace == {" ", "\t"}

\* str.strip(): leading and trailing whitespace removed
RECURSIVE str_lstrip(_)
str_lstrip(s) ==
    IF s # <<>> /\ Head(s) \in Whitespace THEN str_lstrip(Tail(s)) ELSE s

RECURSIVE str_rstrip(_)
str_rstrip(s) ==
    IF s # <<>> /\ s[Len(s)] \in Whitespace
    THEN str_rstrip(SubSeq(s, 1, Len(s) - 1)) ELSE s

str_strip(s) == str_rstrip(str_lstrip(s))

\* str.replace(" ", ""): the blanks removed, and nothing else
str_replace_blanks(s) ==
    LET not_blank(c) == c # " " IN SelectSeq(s, not_blank)

\* str.isalpha(): not empty, and letters only
str_isalpha(s) ==
    /\ s # <<>>
    /\ \A i \in 1..Len(s) :
           s[i] \in UpperSet \cup {Lower[k] : k \in 1..Len(Lower)}

\* the characters of the inputs in code point order, and each one's rank
Chars == <<"\t", " ", "3", "4">> \o Upper \o Lower
CodeOf == [c \in {Chars[i] : i \in 1..Len(Chars)} |->
              CHOOSE i \in 1..Len(Chars) : Chars[i] = c]

\* Python's a < b on strings: by code point at the first difference, a
\* proper prefix being the smaller
str_less(a, b) ==
    \/ Len(a) < Len(b) /\ SubSeq(b, 1, Len(a)) = a
    \/ \E k \in 1..Len(a) :
           /\ k <= Len(b)
           /\ SubSeq(a, 1, k - 1) = SubSeq(b, 1, k - 1)
           /\ CodeOf[a[k]] < CodeOf[b[k]]

\* Python's `sub in s` on strings
str_contains(s, sub) ==
    \E k \in 0..(Len(s) - Len(sub)) : SubSeq(s, k + 1, k + Len(sub)) = sub

s_english == <<"e","n","g","l","i","s","h">>
s_spanish == <<"s","p","a","n","i","s","h">>
s_language == <<"l","a","n","g","u","a","g","e">>
s_cultural_integration == <<"c","u","l","t","u","r","a","l"," ","i","n","t","e","g","r","a","t","i","o","n">>
s_career == <<"c","a","r","e","e","r">>
s_health == <<"h","e","a","l","t","h">>
s_legal == <<"l","e","g","a","l">>

\* the expertise labels the Volunteer subclasses pass to Volunteer.__init__
LanguageMentor == <<"L","a","n","g","u","a","g","e">>
CulturalIntegrationMentor == <<"C","u","l","t","u","r","a","l"," ","I","n","t","e","g","r","a","t","i","o","n">>
CareerMentor == <<"C","a","r","e","e","r">>
HealthAdvisor == <<"H","e","a","l","t","h">>
LegalAdvisor == <<"L","e","g","a","l">>

EXPERTISE_AREAS == {s_language, s_cultural_integration, s_career, s_health, s_legal}

\* create_volunteer_from_dict's volunteer_mapping: lowercase expertise -> subclass
volunteer_mapping(expertise) ==
    CASE expertise = s_language -> LanguageMentor
      [] expertise = s_cultural_integration -> CulturalIntegrationMentor
      [] expertise = s_career -> CareerMentor
      [] expertise = s_health -> HealthAdvisor
      [] expertise = s_legal -> LegalAdvisor

\* f"Matched with {mentor.name}"
MatchedWith(name) == <<"M","a","t","c","h","e","d"," ","w","i","t","h"," ">> \o name

----------------------------------------------------------------------------
(* Records.                                                                *)

\* Volunteer.__init__: the languages are stripped and lowercased
Volunteer(name, email, expertise, available_languages, availability) ==
    [name |-> name,
     email |-> email,
     expertise |-> expertise,
     available_languages |->
         [i \in 1..Len(available_languages) |-> str_lower(str_strip(available_languages[i]))],
     availability |-> availability]

\* Immigrant.__init__
Immigrant(name, email, native_language, desired_language, location, goals) ==
    [name |-> name,
     email |-> email,
     native_language |-> native_language,
     desired_language |-> desired_language,
     location |-> location,
     goals |-> goals,
     progress_log |-> <<>>]

\* create_volunteer_from_dict: <<the volunteer>>, or <<>> for None
create_volunteer_from_dict(data) ==
    LET expertise == str_lower(data.expertise) IN
    IF expertise \in EXPERTISE_AREAS
    THEN <<Volunteer(data.name, data.email, volunteer_mapping(expertise),
                     data.available_languages, data.availability)>>
    ELSE <<>>

\* create_immigrant_from_dict without the assignment of progress_log
create_immigrant_from_dict_new_log(data) ==
    Immigrant(data.name, data.email, data.native_language, data.desired_language,
              data.location, data.goals)

\* create_immigrant_from_dict, on a record that has every key
create_immigrant_from_dict(data) ==
    [Immigrant(data.name, data.email, data.native_language, data.desired_language,
               data.location, data.goals)
         EXCEPT !.progress_log = data.progress_log]

\* datetime.now().strftime("%Y-%m-%d %H:%M:%S"): the clock reading, which no
\* decision of the program depends on, is kept as its format
timestamp == "%Y-%m-%d %H:%M:%S"

\* update_progress with the entry inserted at the head of the log
update_progress_at_head(immigrant, session_type, details) ==
    [immigrant EXCEPT !.progress_log =
        <<[session_type |-> session_type, details |-> details,
           timestamp |-> timestamp]>> \o @]

\* Immigrant.update_progress: one entry appended
update_progress(immigrant, session_type, details) ==
    [immigrant EXCEPT !.progress_log =
        Append(@, [session_type |-> session_type, details |-> details,
                   timestamp |-> timestamp])]

\* update_goals that also starts the progress log afresh
update_goals_fresh_log(immigrant, new_goals) ==
    [immigrant EXCEPT !.goals = new_goals, !.progress_log = <<>>]

\* Immigrant.update_goals
update_goals(immigrant, new_goals) == [immigrant EXCEPT !.goals = new_goals]

\* Volunteer.set_availability
set_availability(mentor, status) == [mentor EXCEPT !.availability = status]

----------------------------------------------------------------------------
(* The stores.                                                             *)

\* {mentor.email: mentor.__dict__ for mentor in mentors}: a Python dict keeps
\* a key at the position of its first insertion and the value of its last.
RECURSIVE mentors_dict(_)
mentors_dict(ms) ==
    IF ms = <<>> THEN <<>>
    ELSE LET init == mentors_dict(SubSeq(ms, 1, Len(ms) - 1))
             last == ms[Len(ms)]
             entry == [key |-> last.email, data |-> last]
         IN IF \E i \in 1..Len(init) : init[i].key = last.email
            THEN [i \in 1..Len(init) |->
                     IF init[i].key = last.email THEN entry ELSE init[i]]
            ELSE Append(init, entry)

\* {email: immigrant.__dict__ for email, immigrant in immigrants_db.items()}
immigrants_dict(db) == db

\* MentorManager.add_mentor: the volunteer is appended
add_mentor(ms, mentor) == Append(ms, mentor)

\* prepopulate_volunteers: the first entry of demo_volunteers
demo_volunteers ==
    <<[name |-> <<"A","l","i","c","e"," ","S","m","i","t","h">>,
       email |-> <<"a","l","i","c","e",".","s","m","i","t","h","@","e","x","a","m","p","l","e",".","c","o","m">>,
       expertise |-> s_language,
       available_languages |-> <<s_english, s_spanish>>,
       availability |-> TRUE]>>

\* the loop `mentor = create_volunteer_from_dict(data); if mentor: add_mentor(mentor)`
RECURSIVE add_all(_, _)
add_all(ms, datas) ==
    IF datas = <<>> THEN ms
    ELSE LET mentor == create_volunteer_from_dict(Head(datas)) IN
         add_all(IF mentor # <<>> THEN add_mentor(ms, mentor[1]) ELSE ms, Tail(datas))

prepopulate_volunteers(ms) == add_all(ms, demo_volunteers)

\* main_menu: the registry built at process start from mentors.json, or from
\* the demo data when the store is empty or missing
load_mentors(store) ==
    IF store # <<>>
    THEN add_all(<<>>, [i \in 1..Len(store) |-> store[i].data])
    ELSE prepopulate_volunteers(<<>>)

\* main_menu: immigrants_db built at process start from immigrants.json
load_immigrants(store) ==
    [email \in DOMAIN store |-> create_immigrant_from_dict(store[email])]

----------------------------------------------------------------------------
(* Resource: the catalog.  A dict is the sequence of its items in key      *)
(* insertion order.                                                        *)

\* list(d.keys())
dict_keys(d) == [i \in 1..Len(d) |-> d[i].key]

\* `k in d`
dict_has(d, k) == \E i \in 1..Len(d) : d[i].key = k

\* d[k], for a key of d
dict_get(d, k) == d[CHOOSE i \in 1..Len(d) : d[i].key = k].value

\* d[k] = v: the value of an existing key replaced in place, a new key last
dict_set(d, k, v) ==
    IF dict_has(d, k)
    THEN [i \in 1..Len(d) |-> IF d[i].key = k THEN [key |-> k, value |-> v] ELSE d[i]]
    ELSE Append(d, [key |-> k, value |-> v])

\* add_resource with the location entered in the catalog before the category
\* and the name are checked
add_resource_location_first(db, location, category, name) ==
    IF ~str_isalpha(str_replace_blanks(location)) THEN [accepted |-> FALSE, resource_db |-> db]
    ELSE LET loc == str_lower(str_strip(location))
             cat == str_lower(str_strip(category))
             nam == str_strip(name)
             db1 == IF ~dict_has(db, loc) THEN dict_set(db, loc, <<>>) ELSE db
             cats1 == dict_get(db1, loc)
             cats2 == IF ~dict_has(cats1, cat) THEN dict_set(cats1, cat, <<>>) ELSE cats1
             cats3 == dict_set(cats2, cat, Append(dict_get(cats2, cat), nam))
         IN IF ~str_isalpha(str_replace_blanks(category))
            THEN [accepted |-> FALSE, resource_db |-> db1]
            ELSE IF ~(Len(str_strip(name)) > 0) THEN [accepted |-> FALSE, resource_db |-> db1]
            ELSE [accepted |-> TRUE, resource_db |-> dict_set(db1, loc, cats3)]

\* add_resource with a name that is in the bucket already not appended again
add_resource_once(db, location, category, name) ==
    IF ~str_isalpha(str_replace_blanks(location)) THEN [accepted |-> FALSE, resource_db |-> db]
    ELSE IF ~str_isalpha(str_replace_blanks(category)) THEN [accepted |-> FALSE, resource_db |-> db]
    ELSE IF ~(Len(str_strip(name)) > 0) THEN [accepted |-> FALSE, resource_db |-> db]
    ELSE LET loc == str_lower(str_strip(location))
             cat == str_lower(str_strip(category))
             nam == str_strip(name)
             db1 == IF ~dict_has(db, loc) THEN dict_set(db, loc, <<>>) ELSE db
             cats1 == dict_get(db1, loc)
             cats2 == IF ~dict_has(cats1, cat) THEN dict_set(cats1, cat, <<>>) ELSE cats1
             names == dict_get(cats2, cat)
             cats3 == dict_set(cats2, cat,
                               IF \E i \in 1..Len(names) : names[i] = nam
                               THEN names ELSE Append(names, nam))
         IN [accepted |-> TRUE, resource_db |-> dict_set(db1, loc, cats3)]

\* Resource.add_resource: whether the three checks pass, and the catalog it leaves
add_resource(db, location, category, name) ==
    IF ~str_isalpha(str_replace_blanks(location)) THEN [accepted |-> FALSE, resource_db |-> db]
    ELSE IF ~str_isalpha(str_replace_blanks(category)) THEN [accepted |-> FALSE, resource_db |-> db]
    ELSE IF ~(Len(str_strip(name)) > 0) THEN [accepted |-> FALSE, resource_db |-> db]
    ELSE LET loc == str_lower(str_strip(location))
             cat == str_lower(str_strip(category))
             nam == str_strip(name)
             db1 == IF ~dict_has(db, loc) THEN dict_set(db, loc, <<>>) ELSE db
             cats1 == dict_get(db1, loc)
             cats2 == IF ~dict_has(cats1, cat) THEN dict_set(cats1, cat, <<>>) ELSE cats1
             cats3 == dict_set(cats2, cat, Append(dict_get(cats2, cat), nam))
         IN [accepted |-> TRUE, resource_db |-> dict_set(db1, loc, cats3)]

\* the inner loop with `>` for `<`: the position of the first greatest element
RECURSIVE min_index_from_greater(_, _, _)
min_index_from_greater(data, j, min_index) ==
    IF j > Len(data) THEN min_index
    ELSE min_index_from_greater(data, j + 1,
                                IF str_less(data[min_index], data[j]) THEN j ELSE min_index)

\* _selection_sort's inner loop from position j on: the position of the
\* first smallest element
RECURSIVE min_index_from(_, _, _)
min_index_from(data, j, min_index) ==
    IF j > Len(data) THEN min_index
    ELSE min_index_from(data, j + 1,
                        IF str_less(data[j], data[min_index]) THEN j ELSE min_index)

\* _selection_sort's outer loop from position i on
RECURSIVE sort_from(_, _)
sort_from(data, i) ==
    IF i > Len(data) THEN data
    ELSE LET m == min_index_from(data, i + 1, i) IN
         sort_from([data EXCEPT ![i] = data[m], ![m] = data[i]], i + 1)

\* _selection_sort returning the list in the order it was given
selection_sort_unsorted(data) == data

\* Resource._selection_sort
selection_sort(data) == sort_from(data, 1)

\* _binary_search with `left < right` for `left <= right`
RECURSIVE binary_search_exclusive(_, _, _, _)
binary_search_exclusive(sorted_list, target, left, right) ==
    IF left < right
    THEN LET mid == (left + right) \div 2 IN
         IF sorted_list[mid + 1] = target THEN mid
         ELSE IF str_less(sorted_list[mid + 1], target)
              THEN binary_search_exclusive(sorted_list, target, mid + 1, right)
              ELSE binary_search_exclusive(sorted_list, target, left, mid - 1)
    ELSE -1

\* Resource._binary_search: left, right and the result are Python's 0-based
\* indices, -1 for not found
RECURSIVE binary_search(_, _, _, _)
binary_search(sorted_list, target, left, right) ==
    IF left <= right
    THEN LET mid == (left + right) \div 2 IN
         IF sorted_list[mid + 1] = target THEN mid
         ELSE IF str_less(sorted_list[mid + 1], target)
              THEN binary_search(sorted_list, target, mid + 1, right)
              ELSE binary_search(sorted_list, target, left, mid - 1)
    ELSE -1

\* search_resources_by_location with the catalog itself put in the order of
\* its sorted keys
search_resources_by_location_in_place(db, location) ==
    LET loc == str_lower(str_strip(location))
        sorted_locations == selection_sort(dict_keys(db))
        sorted_db == [i \in 1..Len(db) |->
                         [key |-> sorted_locations[i],
                          value |-> dict_get(db, sorted_locations[i])]]
        index == binary_search(sorted_locations, loc, 0, Len(sorted_locations) - 1)
    IN IF index # -1
       THEN [result |-> "found",
             resources |-> dict_get(db, sorted_locations[index + 1]),
             resource_db |-> sorted_db]
       ELSE [result |-> "location", resources |-> <<>>, resource_db |-> sorted_db]

\* Resource.search_resources_by_location: what it reports ("found" with the
\* location's mapping, or "location" for no such location) and the catalog
\* it leaves
search_resources_by_location(db, location) ==
    LET loc == str_lower(str_strip(location))
        sorted_locations == selection_sort(dict_keys(db))
        index == binary_search(sorted_locations, loc, 0, Len(sorted_locations) - 1)
    IN IF index # -1
       THEN [result |-> "found",
             resources |-> dict_get(db, sorted_locations[index + 1]),
             resource_db |-> db]
       ELSE [result |-> "location", resources |-> <<>>, resource_db |-> db]

\* search_resources_by_category with the message of the location stage at
\* the category stage too
search_resources_by_category_one_message(db, location, category) ==
    LET loc == str_lower(str_strip(location))
        cat == str_lower(str_strip(category))
        sorted_locations == selection_sort(dict_keys(db))
        location_index == binary_search(sorted_locations, loc, 0, Len(sorted_locations) - 1)
    IN IF location_index # -1
       THEN LET actual_location == sorted_locations[location_index + 1]
                sorted_categories == selection_sort(dict_keys(dict_get(db, actual_location)))
                category_index == binary_search(sorted_categories, cat, 0,
                                                Len(sorted_categories) - 1)
            IN IF category_index # -1
               THEN [result |-> "found",
                     resources |-> dict_get(dict_get(db, actual_location),
                                            sorted_categories[category_index + 1]),
                     resource_db |-> db]
               ELSE [result |-> "location", resources |-> <<>>, resource_db |-> db]
       ELSE [result |-> "location", resources |-> <<>>, resource_db |-> db]

\* search_resources_by_category with the arguments looked up as typed
search_resources_by_category_as_typed(db, location, category) ==
    LET sorted_locations == selection_sort(dict_keys(db))
        location_index == binary_search(sorted_locations, location, 0,
                                        Len(sorted_locations) - 1)
    IN IF location_index # -1
       THEN LET actual_location == sorted_locations[location_index + 1]
                sorted_categories == selection_sort(dict_keys(dict_get(db, actual_location)))
                category_index == binary_search(sorted_categories, category, 0,
                                                Len(sorted_categories) - 1)
            IN IF category_index # -1
               THEN [result |-> "found",
                     resources |-> dict_get(dict_get(db, actual_location),
                                            sorted_categories[category_index + 1]),
                     resource_db |-> db]
               ELSE [result |-> "category", resources |-> <<>>, resource_db |-> db]
       ELSE [result |-> "location", resources |-> <<>>, resource_db |-> db]

\* Resource.search_resources_by_category: "found" with the bucket's names,
\* "location" for no such location, "category" for no such category there
search_resources_by_category(db, location, category) ==
    LET loc == str_lower(str_strip(location))
        cat == str_lower(str_strip(category))
        sorted_locations == selection_sort(dict_keys(db))
        location_index == binary_search(sorted_locations, loc, 0, Len(sorted_locations) - 1)
    IN IF location_index # -1
       THEN LET actual_location == sorted_locations[location_index + 1]
                sorted_categories == selection_sort(dict_keys(dict_get(db, actual_location)))
                category_index == binary_search(sorted_categories, cat, 0,
                                                Len(sorted_categories) - 1)
            IN IF category_index # -1
               THEN [result |-> "found",
                     resources |-> dict_get(dict_get(db, actual_location),
                                            sorted_categories[category_index + 1]),
                     resource_db |-> db]
               ELSE [result |-> "category", resources |-> <<>>, resource_db |-> db]
       ELSE [result |-> "location", resources |-> <<>>, resource_db |-> db]

\* strings of the catalog's inputs
s_San_Jose == <<"S","a","n"," ","J","o","s","e">>
s_san_jose == <<"s","a","n"," ","j","o","s","e">>
s_Austin == <<"A","u","s","t","i","n">>
s_Health == <<"H","e","a","l","t","h">>
s_Legal == <<"L","e","g","a","l">>
s_Clinic_X == <<"C","l","i","n","i","c"," ","X">>
s_Y == <<"Y">>

\* prepopulate_resources: its first call of add_resource
prepopulate_resources(db) ==
    add_resource(db, s_san_jose, s_Health, s_Clinic_X).resource_db

----------------------------------------------------------------------------
(* MentorManager.find_mentor.                                              *)

\* the loop body's conditions without the test of the languages
mentor_matches_any_language(mentor, immigrant, expertise) ==
    /\ str_lower(mentor.expertise) = str_lower(expertise)
    /\ mentor.availability

\* the loop body's conditions without the test of mentor.availability
mentor_matches_unavailable(mentor, immigrant, expertise) ==
    /\ str_lower(mentor.expertise) = str_lower(expertise)
    /\ \E k \in 1..Len(mentor.available_languages) :
           str_lower(immigrant.desired_language) = str_lower(mentor.available_languages[k])

\* the loop body's conditions with a test that the seeker has no entry yet
mentor_matches_first_request(mentor, immigrant, expertise) ==
    /\ str_lower(mentor.expertise) = str_lower(expertise)
    /\ mentor.availability
    /\ immigrant.progress_log = <<>>
    /\ \E k \in 1..Len(mentor.available_languages) :
           str_lower(immigrant.desired_language) = str_lower(mentor.available_languages[k])

\* the two conditions of find_mentor's loop body on one mentor
mentor_matches(mentor, immigrant, expertise) ==
    /\ str_lower(mentor.expertise) = str_lower(expertise)
    /\ mentor.availability
    /\ \E k \in 1..Len(mentor.available_languages) :
           str_lower(immigrant.desired_language) = str_lower(mentor.available_languages[k])

\* `for mentor in self.mentors`, from position i on: the position of the first
\* mentor that matches, 0 when the loop ends without one
RECURSIVE find_scan(_, _, _, _)
find_scan(ms, immigrant, expertise, i) ==
    IF i > Len(ms) THEN 0
    ELSE IF mentor_matches(ms[i], immigrant, expertise) THEN i
    ELSE find_scan(ms, immigrant, expertise, i + 1)

\* find_mentor with the save_data call after the loop instead of inside it
find_mentor_saves_always(ms, immigrant, expertise) ==
    LET i == find_scan(ms, immigrant, expertise, 1) IN
    IF i = 0
    THEN [result |-> 0, mentors |-> ms, immigrant |-> immigrant,
          saved |-> <<mentors_dict(ms)>>]
    ELSE LET ms2 == [ms EXCEPT ![i].availability = FALSE] IN
         [result |-> i,
          mentors |-> ms2,
          saved |-> <<mentors_dict(ms2)>>,
          immigrant |-> update_progress(immigrant, "Mentor Matched",
                                        MatchedWith(ms[i].name))]

\* find_mentor with every matching mentor made unavailable, the first returned
find_mentor_books_all(ms, immigrant, expertise) ==
    LET i == find_scan(ms, immigrant, expertise, 1) IN
    IF i = 0
    THEN [result |-> 0, mentors |-> ms, immigrant |-> immigrant, saved |-> <<>>]
    ELSE LET ms2 == [j \in 1..Len(ms) |->
                        IF mentor_matches(ms[j], immigrant, expertise)
                        THEN [ms[j] EXCEPT !.availability = FALSE]
                        ELSE ms[j]] IN
         [result |-> i,
          mentors |-> ms2,
          saved |-> <<mentors_dict(ms2)>>,
          immigrant |-> update_progress(immigrant, "Mentor Matched",
                                        MatchedWith(ms[i].name))]

\* find_mentor without the call of immigrant.update_progress
find_mentor_unlogged(ms, immigrant, expertise) ==
    LET i == find_scan(ms, immigrant, expertise, 1) IN
    IF i = 0
    THEN [result |-> 0, mentors |-> ms, immigrant |-> immigrant, saved |-> <<>>]
    ELSE LET ms2 == [ms EXCEPT ![i].availability = FALSE] IN
         [result |-> i,
          mentors |-> ms2,
          saved |-> <<mentors_dict(ms2)>>,
          immigrant |-> immigrant]

\* find_mentor: the position it returns (0 for None), the registry and the
\* immigrant it leaves, and what it writes to mentors.json (<<>>: no write)
find_mentor(ms, immigrant, expertise) ==
    LET i == find_scan(ms, immigrant, expertise, 1) IN
    IF i = 0
    THEN [result |-> 0, mentors |-> ms, immigrant |-> immigrant, saved |-> <<>>]
    ELSE LET ms2 == [ms EXCEPT ![i].availability = FALSE] IN
         [result |-> i,
          mentors |-> ms2,
          saved |-> <<mentors_dict(ms2)>>,
          immigrant |-> update_progress(immigrant, "Mentor Matched",
                                        MatchedWith(ms[i].name))]

----------------------------------------------------------------------------
(* MentorManager.remove_mentor.                                            *)

\* the sequence without its element at position i
remove_at(ms, i) == SubSeq(ms, 1, i - 1) \o SubSeq(ms, i + 1, Len(ms))

\* `for mentor in self.mentors`, from position i on: the position of the first
\* mentor whose lowercased email is the lowercased argument, 0 when none
RECURSIVE remove_scan(_, _, _)
remove_scan(ms, mentor_email, i) ==
    IF i > Len(ms) THEN 0
    ELSE IF str_lower(ms[i].email) = str_lower(mentor_email) THEN i
    ELSE remove_scan(ms, mentor_email, i + 1)

\* remove_mentor with every mentor of that email removed
remove_mentor_every(ms, mentor_email) ==
    LET other(m) == str_lower(m.email) # str_lower(mentor_email) IN
    [result |-> remove_scan(ms, mentor_email, 1) # 0,
     index |-> remove_scan(ms, mentor_email, 1),
     mentors |-> SelectSeq(ms, other)]

\* remove_mentor: what it returns, the position it removed (0: none) and the
\* registry it leaves
remove_mentor(ms, mentor_email) ==
    LET i == remove_scan(ms, mentor_email, 1) IN
    IF i # 0
    THEN [result |-> TRUE, index |-> i, mentors |-> remove_at(ms, i)]
    ELSE [result |-> FALSE, index |-> 0, mentors |-> ms]

----------------------------------------------------------------------------
(* The inputs of the menus.                                                *)

MentorNames == { <<"B","o">> }
MentorEmails == { <<"b","o","@","x",".","i","o">>, <<"B","o","@","x",".","i","o">> }
LoginEmails == MentorEmails \cup {demo_volunteers[1].email}
\* the expertise a seeker asks for (immigrant_menu's expertise_mapping)
ExpertiseInputs == {s_language, s_career}
\* the expertise a volunteer registers with
RegisterExpertise == {s_language}
LanguageLists == { <<s_spanish>> }
\* the seekers that sign in: their email and the language they want to practice
Seekers == { [email |-> <<"s","a","m","@","x",".","i","o">>, desired_language |-> s_spanish],
             [email |-> <<"t","i","a","@","x",".","i","o">>, desired_language |-> s_english] }
SeekerEmails == {s.email : s \in Seekers}
\* the goals chosen at sign-up, and the lists update_goals_interactively confirms
FirstGoals == <<"Language Practice">>
GoalLists == { <<"Career Guidance">> }

\* op.name is "find", "register", "availability", "exit" or "start"; "menu"
\* stands for the other steps
NoOp(name) == [name |-> name, email |-> <<>>, expertise |-> <<>>, result |-> 0]

\* no method of Resource has been called by the menus
NoCall == [name |-> "none"]

\* find_mentor is not being called; the process has one thread
NoCalls == [concurrent |-> FALSE, list |-> <<>>]

\* the three stores
Stores == {"mentors.json", "immigrants.json", "resources.json"}

\* what a process meets when it opens a store.  "ok": the file holds the JSON
\* text of the mapping (an absent file and the text {} load alike in a run
\* that starts from "ok"); "missing": open raises FileNotFoundError;
\* "io_error": open raises another OSError (the path is a directory, the
\* device fails); "malformed": json.load raises JSONDecodeError;
\* "not_mapping": the file holds JSON text of a list; "read_only": the file
\* holds the mapping and open(filename, 'w') raises PermissionError
Conditions == {"ok", "missing", "io_error", "malformed", "not_mapping", "read_only"}

\* save_data's `with open(filename, 'w')` raises
write_fails(condition) == condition \in {"io_error", "read_only"}

\* save_data: the content of the store after the call; the exception that a
\* failing open raises is caught and the store is left as it was
save_data(condition, store, data) == IF write_fails(condition) THEN store ELSE data

\* save_data: the condition of the store after the call
saved_condition(condition) == IF write_fails(condition) THEN condition ELSE "ok"

InitMentors ==
    /\ mentors_json = <<>>
    /\ immigrants_json = <<>>
    /\ mentors = load_mentors(<<>>)
    /\ immigrants_db = load_immigrants(<<>>)
    /\ immigrants_modified = FALSE
    /\ mentors_modified = FALSE
    /\ menu = "main"
    /\ current_immigrant = <<>>
    /\ op = NoOp("start")
    /\ booked = {}
    /\ resources_json = <<>>
    /\ files = [f \in Stores |-> "ok"]
    /\ calls = NoCalls

\* main_menu's initialisation
Init ==
    /\ InitMentors
    /\ resource_db = prepopulate_resources(<<>>)
    /\ out = NoCall

----------------------------------------------------------------------------
(* main_menu, choice 1: the immigrant workflow.                            *)

\* the email is a key of immigrants_db: the stored Immigrant is used
SeekerReturn(email) ==
    /\ menu = "main"
    /\ email \in DOMAIN immigrants_db
    /\ menu' = "immigrant"
    /\ current_immigrant' = email
    /\ op' = NoOp("menu")
    /\ UNCHANGED <<mentors, immigrants_db, mentors_json, immigrants_json,
                   immigrants_modified, mentors_modified, booked>>
    /\ UNCHANGED <<catalog_vars, process_vars>>

\* the email is new: an Immigrant is created and immigrants_modified is set
SeekerCreate(email, desired_language, goals) ==
    /\ menu = "main"
    /\ email \notin DOMAIN immigrants_db
    /\ immigrants_db' =
           [e \in DOMAIN immigrants_db \cup {email} |->
               IF e = email
               THEN Immigrant("Sam", email, "turkish", desired_language, "San Jose", goals)
               ELSE immigrants_db[e]]
    /\ immigrants_modified' = TRUE
    /\ menu' = "immigrant"
    /\ current_immigrant' = email
    /\ op' = NoOp("menu")
    /\ UNCHANGED <<mentors, mentors_json, immigrants_json, mentors_modified, booked>>
    /\ UNCHANGED <<catalog_vars, process_vars>>

\* the number of progress entries of all the immigrants
RECURSIVE sum_entries(_, _)
sum_entries(db, emails) ==
    IF emails = {} THEN 0
    ELSE LET e == CHOOSE x \in emails : TRUE IN
         Len(db[e].progress_log) + sum_entries(db, emails \ {e})

total_entries(db) == sum_entries(db, DOMAIN db)

\* immigrant_menu, choice 1: mentor_manager.find_mentor(immigrant, expertise)
AskForMentor(expertise) ==
    /\ menu = "immigrant"
    /\ total_entries(immigrants_db) < MaxLog
    /\ LET r == find_mentor(mentors, immigrants_db[current_immigrant], expertise) IN
       /\ mentors' = r.mentors
       /\ immigrants_db' = [immigrants_db EXCEPT ![current_immigrant] = r.immigrant]
       /\ mentors_json' = IF r.saved # <<>>
                          THEN save_data(files["mentors.json"], mentors_json, r.saved[1])
                          ELSE mentors_json
       /\ files' = IF r.saved # <<>>
                   THEN [files EXCEPT !["mentors.json"] = saved_condition(@)]
                   ELSE files
       /\ op' = [name |-> "find", email |-> current_immigrant,
                 expertise |-> expertise, result |-> r.result]
       /\ booked' = IF r.result # 0 THEN booked \cup {r.result} ELSE booked
    /\ UNCHANGED <<immigrants_json, immigrants_modified, mentors_modified, menu,
                   current_immigrant>>
    /\ UNCHANGED <<catalog_vars, resources_json, calls>>

\* immigrant_menu, choice 4: update_goals_interactively, confirmed
UpdateGoals(new_goals) ==
    /\ menu = "immigrant"
    /\ immigrants_db' = [immigrants_db EXCEPT
                            ![current_immigrant] = update_goals(@, new_goals)]
    /\ op' = NoOp("menu")
    /\ UNCHANGED <<mentors, mentors_json, immigrants_json, immigrants_modified,
                   mentors_modified, menu, current_immigrant, booked>>
    /\ UNCHANGED <<catalog_vars, process_vars>>

\* immigrant_menu, choice 5
ExitImmigrantMenu ==
    /\ menu = "immigrant"
    /\ menu' = "main"
    /\ current_immigrant' = <<>>
    /\ op' = NoOp("menu")
    /\ UNCHANGED <<mentors, immigrants_db, mentors_json, immigrants_json,
                   immigrants_modified, mentors_modified, booked>>
    /\ UNCHANGED <<catalog_vars, process_vars>>

----------------------------------------------------------------------------
(* main_menu, choice 2: the volunteer workflow.                            *)

EnterVolunteerMenu ==
    /\ menu = "main"
    /\ menu' = "volunteer"
    /\ op' = NoOp("menu")
    /\ UNCHANGED <<mentors, immigrants_db, mentors_json, immigrants_json,
                   immigrants_modified, mentors_modified, current_immigrant, booked>>
    /\ UNCHANGED <<catalog_vars, process_vars>>

\* `mentor.email.lower() == email`: the stored email is lowercased, the typed
\* one is compared as typed
email_matches(mentor, email) == str_lower(mentor.email) = email

\* volunteer_menu, choice 2: the for/else that looks for the email
email_exists(ms, email) == \E i \in 1..Len(ms) : email_matches(ms[i], email)

\* volunteer_menu, choice 2: register as a new volunteer
RegisterVolunteer(name, email, expertise, language_list, availability) ==
    /\ menu = "volunteer"
    /\ Len(mentors) < MaxMentors
    /\ IF email_exists(mentors, email)
       THEN /\ op' = [NoOp("register") EXCEPT !.email = email]
            /\ UNCHANGED <<mentors, mentors_json, files>>
       ELSE /\ mentors' = add_mentor(mentors,
                              Volunteer(name, email, expertise, language_list, availability))
            /\ mentors_json' = save_data(files["mentors.json"], mentors_json,
                                         mentors_dict(mentors'))
            /\ files' = [files EXCEPT !["mentors.json"] = saved_condition(@)]
            /\ op' = [NoOp("register") EXCEPT !.email = email, !.result = 1]
    /\ UNCHANGED <<immigrants_db, immigrants_json, immigrants_modified,
                   mentors_modified, menu, current_immigrant, booked>>
    /\ UNCHANGED <<catalog_vars, resources_json, calls>>

\* the position of the first mentor the typed email selects, 0 when none
RECURSIVE first_by_email(_, _, _)
first_by_email(ms, email, i) ==
    IF i > Len(ms) THEN 0
    ELSE IF email_matches(ms[i], email) THEN i
    ELSE first_by_email(ms, email, i + 1)

\* volunteer_menu, choice 3: update availability
UpdateAvailability(email, status) ==
    /\ menu = "volunteer"
    /\ LET i == first_by_email(mentors, email, 1) IN
       IF i = 0
       THEN /\ op' = NoOp("availability")
            /\ UNCHANGED <<mentors, booked>>
       ELSE /\ mentors' = [mentors EXCEPT ![i] = set_availability(@, status)]
            /\ booked' = IF status THEN booked \ {i} ELSE booked
            /\ op' = [NoOp("availability") EXCEPT !.result = i]
    /\ UNCHANGED <<immigrants_db, mentors_json, immigrants_json, immigrants_modified,
                   mentors_modified, menu, current_immigrant>>
    /\ UNCHANGED <<catalog_vars, process_vars>>

\* volunteer_menu has no return statement: it returns None
volunteer_menu == FALSE

\* volunteer_menu, choice 6, and main_menu's `if volunteer_menu(...)`
ExitVolunteerMenu ==
    /\ menu = "volunteer"
    /\ menu' = "main"
    /\ mentors_modified' = IF volunteer_menu THEN TRUE ELSE mentors_modified
    /\ op' = NoOp("menu")
    /\ UNCHANGED <<mentors, immigrants_db, mentors_json, immigrants_json,
                   immigrants_modified, current_immigrant, booked>>
    /\ UNCHANGED <<catalog_vars, process_vars>>

----------------------------------------------------------------------------
(* main_menu, choice 4, and the start of the next process.                 *)

ExitApplication ==
    /\ menu = "main"
    /\ menu' = "exited"
    /\ immigrants_json' = IF immigrants_modified
                          THEN save_data(files["immigrants.json"], immigrants_json,
                                         immigrants_dict(immigrants_db))
                          ELSE immigrants_json
    /\ mentors_json' = IF mentors_modified
                       THEN save_data(files["mentors.json"], mentors_json,
                                      mentors_dict(mentors))
                       ELSE mentors_json
    /\ files' = [f \in Stores |->
                    IF \/ f = "immigrants.json" /\ immigrants_modified
                       \/ f = "mentors.json" /\ mentors_modified
                    THEN saved_condition(files[f])
                    ELSE files[f]]
    /\ op' = NoOp("exit")
    /\ UNCHANGED <<mentors, immigrants_db, immigrants_modified, mentors_modified,
                   current_immigrant, booked>>
    /\ UNCHANGED <<catalog_vars, resources_json, calls>>

\* main_menu's initialisation, run by the next process on the stores as left
Restart ==
    /\ menu = "exited"
    /\ mentors' = load_mentors(mentors_json)
    /\ immigrants_db' = load_immigrants(immigrants_json)
    /\ immigrants_modified' = FALSE
    /\ mentors_modified' = FALSE
    /\ menu' = "main"
    /\ op' = NoOp("start")
    /\ booked' = {}
    /\ resource_db' = prepopulate_resources(<<>>)
    /\ out' = NoCall
    /\ UNCHANGED <<mentors_json, immigrants_json, current_immigrant>>
    /\ UNCHANGED process_vars

\* main_menu's choice 1, for the seekers that sign in
SignIn(seekers) ==
    \/ \E s \in seekers : SeekerReturn(s.email)
    \/ \E s \in seekers : SeekerCreate(s.email, s.desired_language, FirstGoals)

\* the steps of the menus below main_menu's choices that read or write the
\* registry, the logs or the stores
Session ==
    \/ \E expertise \in ExpertiseInputs : AskForMentor(expertise)
    \/ ExitImmigrantMenu
    \/ EnterVolunteerMenu
    \/ \E name \in MentorNames, email \in MentorEmails, expertise \in RegisterExpertise,
          l \in LanguageLists, a \in BOOLEAN :
           RegisterVolunteer(name, email, expertise, l, a)
    \/ \E email \in LoginEmails, status \in BOOLEAN : UpdateAvailability(email, status)
    \/ ExitVolunteerMenu
    \/ ExitApplication

Next == SignIn(Seekers) \/ Session

\* immigrant_menu's choice 4, which writes nothing but the seeker's goals
EditGoals == \E g \in GoalLists : UpdateGoals(g)

\* one run of the program, from a fresh installation, the seekers keeping
\* the goals they signed up with
Spec == Init /\ [][Next]_vars

\* any number of runs, each starting from the stores the previous one left,
\* with one seeker signing in and editing goals
NextRuns ==
    \/ SignIn({s \in Seekers : s.desired_language = s_spanish})
    \/ Session
    \/ EditGoals
    \/ Restart

SpecRuns == Init /\ [][NextRuns]_vars

\* the runs of the seekers: they sign in, ask for mentors and edit goals,
\* mentors become available again, and the next process starts on the stores
\* the last one has left
NextSeekers ==
    \/ SignIn(Seekers)
    \/ \E expertise \in ExpertiseInputs : AskForMentor(expertise)
    \/ EditGoals
    \/ ExitImmigrantMenu
    \/ EnterVolunteerMenu
    \/ \E email \in LoginEmails, status \in BOOLEAN : UpdateAvailability(email, status)
    \/ ExitVolunteerMenu
    \/ ExitApplication
    \/ Restart

SpecSeekers == Init /\ [][NextSeekers]_vars

----------------------------------------------------------------------------
(* find_mentor statement by statement, called by two callers.  With        *)
(* calls.concurrent the callers are threads that the interpreter switches  *)
(* between statements; without, a call returns before the next one starts, *)
(* as in main_menu.                                                        *)

\* the seekers that call, both practising the same language
Callers == { <<"s","a","m","@","x",".","i","o">>, <<"a","n","a","@","x",".","i","o">> }
\* an Immigrant object whose desired_language attribute has been deleted
Incomplete == <<"k","i","m","@","x",".","i","o">>

\* the first argument: an Immigrant of immigrants_db, or None
ImmigrantArgs ==
    {[type |-> "Immigrant", email |-> e] : e \in Callers \cup {Incomplete}}
        \cup {[type |-> "NoneType", email |-> <<>>]}
\* the second argument: a string, or the integer 42 (kept as its digits)
ExpertiseArgs ==
    {[type |-> "str", value |-> e] : e \in ExpertiseInputs}
        \cup {[type |-> "int", value |-> <<"4","2">>]}

\* a call that has not executed a statement of find_mentor yet
Call(immigrant, expertise) ==
    [immigrant |-> immigrant, expertise |-> expertise, line |-> "try", mentor |-> 0,
     raised |-> "", printed |-> "", returned |-> 0]

\* the call has entered find_mentor and not returned
running(call) == call.line \notin {"try", "return"}

\* the interpreter may execute the next statement of call c
scheduled(c) ==
    /\ c \in 1..Len(calls.list)
    /\ calls.concurrent \/ \A d \in 1..Len(calls.list) : d # c => ~running(calls.list[d])

\* the except clauses of find_mentor: the message printed; None is returned
handler(call, exception) ==
    [call EXCEPT !.line = "return", !.raised = exception, !.returned = 0,
                 !.printed = IF exception = "AttributeError"
                             THEN "Error: A mentor or immigrant is missing a required attribute."
                             ELSE "Type Error"]

\* the two isinstance checks
FindEnter(c) ==
    /\ scheduled(c)
    /\ calls.list[c].line = "try"
    /\ LET call == calls.list[c] IN
       calls' = [calls EXCEPT !.list[c] =
                    IF call.immigrant.type # "Immigrant" \/ call.expertise.type # "str"
                    THEN handler(call, "TypeError")
                    ELSE [call EXCEPT !.line = "for", !.mentor = 1]]
    /\ UNCHANGED <<mentor_vars, catalog_vars, resources_json, files>>

\* `mentor.expertise.lower() == expertise.lower() and mentor.availability`
expertise_available(mentor, expertise) ==
    /\ str_lower(mentor.expertise) = str_lower(expertise)
    /\ mentor.availability

\* one pass of `for mentor in self.mentors` up to the assignment: the two if
\* statements on the mentor at the loop variable, or the end of the loop
FindCheck(c) ==
    /\ scheduled(c)
    /\ calls.list[c].line = "for"
    /\ LET call == calls.list[c]
           immigrant == immigrants_db[call.immigrant.email]
           expertise == call.expertise.value
       IN calls' = [calls EXCEPT !.list[c] =
              IF call.mentor > Len(mentors)
              THEN [call EXCEPT !.line = "return", !.returned = 0,
                                !.printed = "No mentor available."]
              ELSE IF ~expertise_available(mentors[call.mentor], expertise)
              THEN [call EXCEPT !.mentor = @ + 1]
              ELSE IF "desired_language" \notin DOMAIN immigrant
              THEN handler(call, "AttributeError")
              ELSE IF mentor_matches(mentors[call.mentor], immigrant, expertise)
              THEN [call EXCEPT !.line = "mentor.availability = False"]
              ELSE [call EXCEPT !.mentor = @ + 1]]
    /\ UNCHANGED <<mentor_vars, catalog_vars, resources_json, files>>

\* the assignment that leaves the registry as it is
book_nothing(ms, i) == ms

\* mentor.availability = False
book(ms, i) == [ms EXCEPT ![i].availability = FALSE]

\* mentor.availability = False; save_data("mentors.json", ...)
FindBook(c) ==
    /\ scheduled(c)
    /\ calls.list[c].line = "mentor.availability = False"
    /\ mentors' = book(mentors, calls.list[c].mentor)
    /\ mentors_json' = save_data(files["mentors.json"], mentors_json, mentors_dict(mentors'))
    /\ files' = [files EXCEPT !["mentors.json"] = saved_condition(@)]
    /\ calls' = [calls EXCEPT !.list[c].line = "immigrant.update_progress"]
    /\ UNCHANGED <<immigrants_db, immigrants_json, immigrants_modified, mentors_modified,
                   menu, current_immigrant, op, booked>>
    /\ UNCHANGED <<catalog_vars, resources_json>>

\* immigrant.update_progress("Mentor Matched", ...); return mentor
FindLog(c) ==
    /\ scheduled(c)
    /\ calls.list[c].line = "immigrant.update_progress"
    /\ LET call == calls.list[c] IN
       /\ immigrants_db' = [immigrants_db EXCEPT ![call.immigrant.email] =
              update_progress(@, "Mentor Matched", MatchedWith(mentors[call.mentor].name))]
       /\ calls' = [calls EXCEPT !.list[c] =
              [call EXCEPT !.line = "return", !.returned = call.mentor]]
    /\ UNCHANGED <<mentors, mentors_json, immigrants_json, immigrants_modified,
                   mentors_modified, menu, current_immigrant, op, booked>>
    /\ UNCHANGED <<catalog_vars, resources_json, files>>

\* the registries the calls find: the demo registry, and one more volunteer
CallRegistries ==
    { prepopulate_volunteers(<<>>),
      add_mentor(prepopulate_volunteers(<<>>),
                 Volunteer(<<"B","o">>, <<"b","o","@","x",".","i","o">>,
                           s_language, <<s_spanish>>, TRUE)) }

\* the seekers of the callers
call_immigrants ==
    [e \in Callers \cup {Incomplete} |->
        LET immigrant == Immigrant("Sam", e, "turkish", s_spanish, "San Jose", FirstGoals) IN
        IF e = Incomplete
        THEN [a \in DOMAIN immigrant \ {"desired_language"} |-> immigrant[a]]
        ELSE immigrant]

\* two callers are about to call find_mentor
InitCalls ==
    /\ mentors \in CallRegistries
    /\ immigrants_db = call_immigrants
    /\ calls \in {[concurrent |-> t, list |-> <<Call(i1, e1), Call(i2, e2)>>] :
                    t \in BOOLEAN, i1 \in ImmigrantArgs, i2 \in ImmigrantArgs,
                    e1 \in ExpertiseArgs, e2 \in ExpertiseArgs}
    /\ mentors_json = <<>>
    /\ immigrants_json = <<>>
    /\ immigrants_modified = FALSE
    /\ mentors_modified = FALSE
    /\ menu = "immigrant"
    /\ current_immigrant = <<>>
    /\ op = NoOp("menu")
    /\ booked = {}
    /\ resources_json = <<>>
    /\ files = [f \in Stores |-> "ok"]
    /\ resource_db = prepopulate_resources(<<>>)
    /\ out = NoCall

NextCalls ==
    \E c \in 1..2 : FindEnter(c) \/ FindCheck(c) \/ FindBook(c) \/ FindLog(c)

\* two calls of find_mentor, one after the other or interleaved
SpecCalls == InitCalls /\ [][NextCalls]_vars

----------------------------------------------------------------------------
(* The start of a process on stores in any condition.                      *)

\* load_data: the value it returns, or the exception that leaves it.  Only
\* FileNotFoundError and json.JSONDecodeError are caught, and give {}.
load_data(condition, store) ==
    CASE condition \in {"ok", "read_only"} -> [type |-> "dict", value |-> store]
      [] condition = "missing" -> [type |-> "dict", value |-> <<>>]
      [] condition = "malformed" -> [type |-> "dict", value |-> <<>>]
      [] condition = "not_mapping" -> [type |-> "list", value |-> <<>>]
      [] condition = "io_error" -> [type |-> "raise", value |-> "OSError"]

\* main_menu's initialisation: the stores it opens, in order, and the state
\* it builds, or the exception that leaves main_menu.  The catalog is built
\* by Resource() and prepopulate_resources; load_data("immigrants.json") is
\* called first and .items() is called on what it returns; mentors.json is
\* used when it holds a non-empty dict.
main_menu_start(fs, m_json, i_json) ==
    LET immigrants_data == load_data(fs["immigrants.json"], i_json)
        mentors_data == load_data(fs["mentors.json"], m_json)
        catalog == prepopulate_resources(<<>>)
    IN  IF immigrants_data.type = "raise"
        THEN [raised |-> immigrants_data.value, opened |-> <<"immigrants.json">>,
              resource_db |-> catalog, immigrants_db |-> <<>>, mentors |-> <<>>]
        ELSE IF immigrants_data.type # "dict"
        THEN [raised |-> "AttributeError", opened |-> <<"immigrants.json">>,
              resource_db |-> catalog, immigrants_db |-> <<>>, mentors |-> <<>>]
        ELSE IF mentors_data.type = "raise"
        THEN [raised |-> mentors_data.value,
              opened |-> <<"immigrants.json", "mentors.json">>,
              resource_db |-> catalog,
              immigrants_db |-> load_immigrants(immigrants_data.value),
              mentors |-> <<>>]
        ELSE [raised |-> "",
              opened |-> <<"immigrants.json", "mentors.json">>,
              resource_db |-> catalog,
              immigrants_db |-> load_immigrants(immigrants_data.value),
              mentors |-> IF mentors_data.type = "dict"
                          THEN load_mentors(mentors_data.value)
                          ELSE prepopulate_volunteers(<<>>)]

\* main_menu up to its menu loop; an exception ends the process
StartUp ==
    /\ menu = "starting"
    /\ LET start == main_menu_start(files, mentors_json, immigrants_json) IN
       /\ menu' = IF start.raised = "" THEN "main" ELSE "crashed"
       /\ resource_db' = start.resource_db
       /\ immigrants_db' = start.immigrants_db
       /\ mentors' = start.mentors
    /\ immigrants_modified' = FALSE
    /\ mentors_modified' = FALSE
    /\ op' = NoOp("start")
    /\ booked' = {}
    /\ out' = NoCall
    /\ UNCHANGED <<mentors_json, immigrants_json, current_immigrant>>
    /\ UNCHANGED process_vars

\* the seeker that uses the process
Returning == {s \in Seekers : s.desired_language = s_spanish}

\* mentors.json as a run that registered one volunteer has left it
stored_mentors ==
    mentors_dict(add_mentor(prepopulate_volunteers(<<>>),
                            Volunteer(<<"B","o">>, <<"b","o","@","x",".","i","o">>,
                                      s_language, <<s_spanish>>, TRUE)))

\* immigrants.json as a run in which one seeker signed up has left it
stored_immigrants ==
    [e \in {s.email : s \in Returning} |->
        Immigrant("Sam", e, "turkish", s_spanish, "San Jose", FirstGoals)]

\* resources.json as save_resources writes a catalog of one name
stored_resources == add_resource(<<>>, s_Austin, s_Legal, s_Y).resource_db

\* the process is about to start; each store is in any condition
InitStart ==
    /\ mentors_json = stored_mentors
    /\ immigrants_json = stored_immigrants
    /\ resources_json \in {<<>>, stored_resources}
    /\ files \in {fs \in [Stores -> Conditions] : fs["resources.json"] \in {"ok", "missing"}}
    /\ mentors = <<>>
    /\ immigrants_db = <<>>
    /\ resource_db = <<>>
    /\ immigrants_modified = FALSE
    /\ mentors_modified = FALSE
    /\ menu = "starting"
    /\ current_immigrant = <<>>
    /\ op = NoOp("start")
    /\ booked = {}
    /\ out = NoCall
    /\ calls = NoCalls

NextStart ==
    \/ StartUp
    \/ SignIn(Returning)
    \/ \E expertise \in ExpertiseInputs : AskForMentor(expertise)
    \/ ExitImmigrantMenu
    \/ ExitApplication

\* one process started on stores in any condition, used by one seeker
SpecStart == InitStart /\ [][NextStart]_vars

----------------------------------------------------------------------------
(* MentorManager.remove_mentor called on the registry of a run (no menu    *)
(* calls it).                                                              *)

\* the emails remove_mentor is called with
RemoveEmails == LoginEmails \cup { <<"B","O","@","X",".","I","O">> }

\* mentor_manager.remove_mentor(mentor_email); the positions behind the
\* removed one move up by one
RemoveMentor(mentor_email) ==
    /\ menu = "volunteer"
    /\ LET r == remove_mentor(mentors, mentor_email) IN
       /\ mentors' = r.mentors
       /\ op' = [NoOp("remove") EXCEPT !.email = mentor_email,
                                       !.result = IF r.result THEN 1 ELSE 0]
       /\ booked' = IF r.index = 0 THEN booked
                    ELSE {IF j > r.index THEN j - 1 ELSE j : j \in booked \ {r.index}}
    /\ UNCHANGED <<immigrants_db, mentors_json, immigrants_json, immigrants_modified,
                   mentors_modified, menu, current_immigrant>>
    /\ UNCHANGED <<catalog_vars, process_vars>>

NextRemove ==
    \/ EnterVolunteerMenu
    \/ \E name \in MentorNames, email \in MentorEmails, expertise \in RegisterExpertise,
          l \in LanguageLists, a \in BOOLEAN :
           RegisterVolunteer(name, email, expertise, l, a)
    \/ \E email \in LoginEmails, status \in BOOLEAN : UpdateAvailability(email, status)
    \/ \E mentor_email \in RemoveEmails : RemoveMentor(mentor_email)

\* a run in which volunteers register and mentors are removed
SpecRemove == Init /\ [][NextRemove]_vars

----------------------------------------------------------------------------
(* The methods of Resource called on a catalog that starts empty.          *)

\* the arguments of add_resource: <<location, category, name>>
AddInputs ==
    { <<s_San_Jose, s_Health, s_Clinic_X>>,
      <<s_san_jose, s_Health, s_Clinic_X>>,
      <<<<" ","s","a","n"," ","j","o","s","e"," ">>, <<"h","e","a","l","t","h"," ">>, <<" ","Y"," ">>>>,
      <<s_San_Jose, s_Legal, s_Y>>,
      <<s_Austin, s_Legal, s_Clinic_X>>,
      <<<<"B","o","s","t","o","n">>, s_Health, s_Clinic_X>>,
      <<<<"I","n","v","4","l","i","d">>, s_Health, s_Clinic_X>>,
      <<s_San_Jose, <<"L","3","g","a","l">>, s_Clinic_X>>,
      <<s_San_Jose, s_Health, <<" "," ">>>>,
      <<<<"S","a","n"," ","J","o","s","e","\t">>, s_Health, s_Clinic_X>> }

\* the arguments of the searches
SearchLocations ==
    { <<"s","a","n"," ","j","o","s","e"," ">>, <<"S","A","N"," ","J","O","S","E","\t">>, s_Austin, <<"B","o","s","t","o","n">>, <<"S","a","n","J","o","s","e">> }
SearchCategories ==
    { <<"h","e","a","l","t","h">>, <<" ","H","E","A","L","T","H">>, s_Legal, <<"F","o","o","d">> }

\* the number of names in the buckets of one location
RECURSIVE count_bucket_names(_)
count_bucket_names(cats) ==
    IF cats = <<>> THEN 0
    ELSE Len(Head(cats).value) + count_bucket_names(Tail(cats))

\* the number of names in the catalog
RECURSIVE count_names(_)
count_names(db) ==
    IF db = <<>> THEN 0
    ELSE count_bucket_names(Head(db).value) + count_names(Tail(db))

\* resource_manager.add_resource(location, category, name)
AddResource(location, category, name) ==
    /\ count_names(resource_db) < MaxResources
    /\ LET r == add_resource(resource_db, location, category, name) IN
       /\ resource_db' = r.resource_db
       /\ out' = [name |-> "add", location |-> location, category |-> category,
                  resource |-> name,
                  result |-> IF r.accepted THEN "accepted" ELSE "rejected",
                  resources |-> <<>>]
    /\ UNCHANGED <<mentor_vars, process_vars>>

\* resource_manager.search_resources_by_location(location)
SearchByLocation(location) ==
    /\ LET r == search_resources_by_location(resource_db, location) IN
       /\ resource_db' = r.resource_db
       /\ out' = [name |-> "by_location", location |-> location, category |-> <<>>,
                  resource |-> <<>>, result |-> r.result, resources |-> r.resources]
    /\ UNCHANGED <<mentor_vars, process_vars>>

\* resource_manager.search_resources_by_category(location, category)
SearchByCategory(location, category) ==
    /\ LET r == search_resources_by_category(resource_db, location, category) IN
       /\ resource_db' = r.resource_db
       /\ out' = [name |-> "by_category", location |-> location, category |-> category,
                  resource |-> <<>>, result |-> r.result, resources |-> r.resources]
    /\ UNCHANGED <<mentor_vars, process_vars>>

\* Resource(): the catalog is empty
InitCatalog ==
    /\ InitMentors
    /\ resource_db = <<>>
    /\ out = NoCall

NextCatalog ==
    \/ \E a \in AddInputs : AddResource(a[1], a[2], a[3])
    \/ \E location \in SearchLocations : SearchByLocation(location)
    \/ \E location \in SearchLocations, category \in SearchCategories :
           SearchByCategory(location, category)

\* any sequence of calls of add_resource and of the two searches
SpecCatalog == InitCatalog /\ [][NextCatalog]_vars

----------------------------------------------------------------------------
(* _selection_sort and _binary_search called on lists of keys.             *)

\* the keys of the lists, and the targets looked for
Keys == { <<"a","u","s","t","i","n">>, <<"b","o","s","t","o","n">>, <<"s","a","n">>, <<"s","a","n"," ","j","o","s","e">>, <<"s","a","n","j","o","s","e">> }
Targets == Keys \cup { <<>>, <<"a">>, <<"s","a","m">>, <<"z","e","d">> }

\* the lists of at most MaxKeys keys, no key twice
KeyLists ==
    UNION {{l \in [1..n -> Keys] : \A i, j \in 1..n : i # j => l[i] # l[j]} : n \in 0..MaxKeys}

\* a list of keys and a target are given
InitSearch ==
    /\ InitMentors
    /\ resource_db = <<>>
    /\ out \in {[name |-> "list", data |-> l, target |-> t] : l \in KeyLists, t \in Targets}

\* sorted_locations = self._selection_sort(list(...))
SelectionSort ==
    /\ out.name = "list"
    /\ out' = [name |-> "sorted", data |-> selection_sort(out.data), target |-> out.target]
    /\ UNCHANGED <<mentor_vars, resource_db, process_vars>>

\* index = self._binary_search(sorted_locations, location, 0, len(sorted_locations) - 1)
BinarySearch ==
    /\ out.name = "sorted"
    /\ out' = [name |-> "searched", data |-> out.data, target |-> out.target,
               result |-> binary_search(out.data, out.target, 0, Len(out.data) - 1)]
    /\ UNCHANGED <<mentor_vars, resource_db, process_vars>>

NextSearch == SelectionSort \/ BinarySearch

\* a list of keys is sorted and then searched
SpecSearch == InitSearch /\ [][NextSearch]_vars

----------------------------------------------------------------------------
(* _binary_search call by call, on any list of keys.                       *)

\* sorted_list[index]: <<the item>>, or <<>> when Python raises IndexError;
\* a negative index counts from the end of the list
list_item(list, index) ==
    IF index \in 0..(Len(list) - 1) THEN <<list[index + 1]>>
    ELSE IF index \in (0 - Len(list))..(-1) THEN <<list[Len(list) + index + 1]>>
    ELSE <<>>

\* the body of _binary_search that calls itself on mid for mid + 1
binary_search_body_from_mid(sorted_list, target, left, right) ==
    IF left <= right
    THEN LET mid == (left + right) \div 2
             item == list_item(sorted_list, mid)
         IN IF item = <<>>
            THEN [do |-> "raise", left |-> left, right |-> right, result |-> -1, read |-> {mid}]
            ELSE IF item[1] = target
            THEN [do |-> "return", left |-> left, right |-> right, result |-> mid, read |-> {mid}]
            ELSE IF str_less(item[1], target)
            THEN [do |-> "call", left |-> mid, right |-> right, result |-> -1, read |-> {mid}]
            ELSE [do |-> "call", left |-> left, right |-> mid - 1, result |-> -1, read |-> {mid}]
    ELSE [do |-> "return", left |-> left, right |-> right, result |-> -1, read |-> {}]

\* the body of _binary_search, once: the index it reads, and whether it
\* returns a result or calls itself, and on which range
binary_search_body(sorted_list, target, left, right) ==
    IF left <= right
    THEN LET mid == (left + right) \div 2
             item == list_item(sorted_list, mid)
         IN IF item = <<>>
            THEN [do |-> "raise", left |-> left, right |-> right, result |-> -1, read |-> {mid}]
            ELSE IF item[1] = target
            THEN [do |-> "return", left |-> left, right |-> right, result |-> mid, read |-> {mid}]
            ELSE IF str_less(item[1], target)
            THEN [do |-> "call", left |-> mid + 1, right |-> right, result |-> -1, read |-> {mid}]
            ELSE [do |-> "call", left |-> left, right |-> mid - 1, result |-> -1, read |-> {mid}]
    ELSE [do |-> "return", left |-> left, right |-> right, result |-> -1, read |-> {}]

\* self._binary_search(list, target, 0, len(list) - 1): the first call
BinarySearchEnter ==
    /\ out.name = "list"
    /\ out' = [name |-> "call", data |-> out.data, target |-> out.target,
               left |-> 0, right |-> Len(out.data) - 1, result |-> -1, read |-> {}]
    /\ UNCHANGED <<mentor_vars, resource_db, process_vars>>

\* the body of the innermost call: it calls itself, or returns (and with it
\* every call that waits for it: each returns what its callee returns)
BinarySearchBody ==
    /\ out.name = "call"
    /\ LET body == binary_search_body(out.data, out.target, out.left, out.right) IN
       out' = [out EXCEPT !.name = IF body.do = "return" THEN "returned" ELSE body.do,
                          !.left = body.left, !.right = body.right,
                          !.result = body.result, !.read = @ \cup body.read]
    /\ UNCHANGED <<mentor_vars, resource_db, process_vars>>

NextRecursion == BinarySearchEnter \/ BinarySearchBody

\* a list of keys is searched; the interpreter goes on executing the call
SpecRecursion == InitSearch /\ [][NextRecursion]_vars /\ WF_vars(NextRecursion)

----------------------------------------------------------------------------
(* Properties of MentorManager.find_mentor.                                *)

\* the three conditions of a match, as the specification words them
Satisfies(record, seeker, expertise) ==
    /\ str_lower(record.expertise) = str_lower(expertise)
    /\ record.availability = TRUE
    /\ str_lower(seeker.desired_language) \in
           {record.available_languages[k] : k \in 1..Len(record.available_languages)}

\* C1: find returns the first record, in insertion order, that satisfies the
\* three conditions (expertise equal ignoring case, available, the seeker's
\* desired language among its languages), and the no-match signal exactly
\* when no record satisfies them.
C1_FindFirstMatch ==
    [][op'.name = "find" =>
          LET S == {i \in 1..Len(mentors) :
                       Satisfies(mentors[i], immigrants_db[op'.email], op'.expertise)}
          IN IF S = {} THEN op'.result = 0
             ELSE op'.result \in S /\ \A j \in S : op'.result <= j]_vars

\* a find has returned the second record, the first one not satisfying the conditions
C1_Witness ==
    /\ op.name = "find"
    /\ op.result = 2
    /\ Len(mentors) = 3

\* C2: after a successful find the returned mentor is unavailable and the
\* seeker's log is the log before the call with one entry appended, whose
\* category is the mentor-matched label and whose detail contains the
\* mentor's name.
C2_MatchEffect ==
    [][op'.name = "find" /\ op'.result # 0 =>
          LET old == immigrants_db[op'.email].progress_log
              new == immigrants_db'[op'.email].progress_log
          IN /\ mentors'[op'.result].availability = FALSE
             /\ Len(new) = Len(old) + 1
             /\ SubSeq(new, 1, Len(old)) = old
             /\ new[Len(new)].session_type = "Mentor Matched"
             /\ str_contains(new[Len(new)].details, mentors'[op'.result].name)]_vars

\* a successful find has appended to a log that already held an entry
C2_Witness ==
    /\ op.name = "find"
    /\ op.result # 0
    /\ Len(immigrants_db[op.email].progress_log) = 2

\* C3: a find that returns the no-match signal changes no mentor record, not
\* the registry, not the seeker's log and not the mentors store.
C3_NoMatchNoMutation ==
    [][op'.name = "find" /\ op'.result = 0 =>
          /\ mentors' = mentors
          /\ immigrants_db' = immigrants_db
          /\ mentors_json' = mentors_json]_vars

\* a find has returned no-match while the store is behind the registry
C3_Witness ==
    /\ op.name = "find"
    /\ op.result = 0
    /\ mentors_json # mentors_dict(mentors)
    /\ \E i \in 1..Len(mentors) : mentors[i].availability

\* C4: a successful find changes the available flag of the record it returns
\* and nothing else of the registry: the other records, the size and the
\* order stay.
C4_OneMentorPerRequest ==
    [][op'.name = "find" /\ op'.result # 0 =>
          /\ Len(mentors') = Len(mentors)
          /\ mentors[op'.result].availability # mentors'[op'.result].availability
          /\ \A i \in 1..Len(mentors) :
                 IF i = op'.result
                 THEN mentors'[i] = [mentors[i] EXCEPT !.availability = mentors'[i].availability]
                 ELSE mentors'[i] = mentors[i]]_vars

\* a find has returned one record while a later record satisfied the same request
C4_Witness ==
    /\ op.name = "find"
    /\ op.result # 0
    /\ \E j \in (op.result + 1)..Len(mentors) :
           Satisfies(mentors[j], immigrants_db[op.email], op.expertise)

----------------------------------------------------------------------------
(* Properties of the bookings.                                             *)

\* an entry of a progress log that records a match with the mentor
References(entry, mentor) ==
    /\ entry.session_type = "Mentor Matched"
    /\ str_contains(entry.details, mentor.name)

\* the number of entries, over all the logs, that record a match with the mentor
match_entries(db, mentor) ==
    Cardinality({p \in UNION {{<<e, k>> : k \in 1..Len(db[e].progress_log)} : e \in DOMAIN db} :
                    References(db[p[1]].progress_log[p[2]], mentor)})

C6_NoDoubleBooking ==
    [][op'.name = "find" =>
          /\ op'.result \notin booked
          /\ ( /\ op.name = "find"
               /\ op.result # 0
               /\ op'.email = op.email
               /\ op'.expertise = op.expertise
               /\ \A j \in 1..Len(mentors) :
                      j # op.result =>
                          ~Satisfies(mentors[j], immigrants_db[op'.email], op'.expertise)
             ) => op'.result = 0]_vars

\* the request that booked a mentor has been made again and has returned
\* no-match, the booked mentor being the only one of that expertise and language
C6_Witness ==
    /\ op.name = "find"
    /\ op.result = 0
    /\ \E i \in booked :
          Satisfies([mentors[i] EXCEPT !.availability = TRUE],
                    immigrants_db[op.email], op.expertise)

----------------------------------------------------------------------------
(* Properties of the stores.                                               *)

\* the store has one entry for every record of the registry, with the
\* record's values
StoreHolds(store, ms) ==
    /\ Len(store) = Len(ms)
    /\ \A i \in 1..Len(ms) : store[i].data = ms[i]

\* C7: after every successful registration and every successful find the
\* mentors store holds one entry for every record of the registry, with the
\* record's current values.
C7_StoreHoldsRegistry ==
    [][(op'.name \in {"register", "find"} /\ op'.result # 0) =>
          StoreHolds(mentors_json', mentors')]_vars

\* C8: at exit, when the seekers differ from those the seekers store holds
\* (a seeker created, goals replaced, a log entry appended), the seekers
\* store is written and holds every seeker's current state.
C8_ExitWritesSeekers ==
    [][(op'.name = "exit" /\ immigrants_db # load_immigrants(immigrants_json)) =>
          immigrants_json' = immigrants_dict(immigrants_db)]_vars

\* C9: at exit, when the registry is neither what the mentors store holds nor
\* what the run started with (as after an availability update that no
\* registration or find followed), the mentors store is written and holds
\* every mentor's current state.
C9_ExitWritesMentors ==
    [][(/\ op'.name = "exit"
        /\ ~StoreHolds(mentors_json, mentors)
        /\ mentors # load_mentors(mentors_json)) =>
          StoreHolds(mentors_json', mentors)]_vars

\* C10: a registration whose contact equals, ignoring case, the contact of a
\* record of the registry fails and leaves the registry unchanged; any other
\* registration appends the record at the end of the registry and succeeds.
C10_AddRejectsDuplicate ==
    [][op'.name = "register" =>
          IF \E i \in 1..Len(mentors) : str_lower(mentors[i].email) = str_lower(op'.email)
          THEN op'.result = 0 /\ mentors' = mentors
          ELSE /\ op'.result = 1
               /\ Len(mentors') = Len(mentors) + 1
               /\ SubSeq(mentors', 1, Len(mentors)) = mentors
               /\ mentors'[Len(mentors')].email = op'.email]_vars

----------------------------------------------------------------------------
(* Properties of the registry's contacts.                                  *)

\* C11: no two records of the registry have contacts that are equal when
\* compared ignoring case.
C11_UniqueContacts ==
    \A i, j \in 1..Len(mentors) :
        i # j => str_lower(mentors[i].email) # str_lower(mentors[j].email)

\* C12: remove_mentor removes exactly the first record, in insertion order,
\* whose contact equals the argument ignoring case, keeps every other record
\* in its order and returns True; when no record matches it returns False
\* and leaves the registry unchanged.
C12_RemoveFirstMatch ==
    [][op'.name = "remove" =>
          LET S == {i \in 1..Len(mentors) :
                       str_lower(mentors[i].email) = str_lower(op'.email)}
          IN IF S = {}
             THEN op'.result = 0 /\ mentors' = mentors
             ELSE LET first == CHOOSE i \in S : \A j \in S : i <= j IN
                  /\ op'.result = 1
                  /\ Len(mentors') = Len(mentors) - 1
                  /\ \A k \in 1..Len(mentors') :
                         mentors'[k] = IF k < first THEN mentors[k] ELSE mentors[k + 1]]_vars

\* a removal has taken the first of two records of one contact: the second
\* is still in the registry, behind a record that was not removed
C12_Witness ==
    /\ op.name = "remove"
    /\ op.result = 1
    /\ Len(mentors) = 2
    /\ str_lower(mentors[2].email) = str_lower(op.email)

----------------------------------------------------------------------------
(* Properties of the catalog.                                              *)

\* the elements of a sequence
Elems(seq) == {seq[i] : i \in 1..Len(seq)}

\* the string without its whitespace, in lowercase
Squeezed(str) ==
    LET not_space(c) == c \notin Whitespace IN str_lower(SelectSeq(str, not_space))

\* the string from its first to its last character that is not whitespace
Trimmed(str) ==
    LET I == {i \in 1..Len(str) : str[i] \notin Whitespace} IN
    IF I = {} THEN <<>>
    ELSE SubSeq(str, CHOOSE i \in I : \A j \in I : i <= j,
                     CHOOSE i \in I : \A j \in I : i >= j)

\* the key a location or a category is filed under: trimmed, in lowercase
Normalized(str) == str_lower(Trimmed(str))

\* C13, as the specification states it: after an accepted
\* add_resource(loc, cat, name), a following search by category with a
\* location and a category that differ from loc and cat only by letter case
\* or whitespace reports a sequence that includes name.
C13_RoundTripAnyWhitespace ==
    [][(/\ out.name = "add"
        /\ out.result = "accepted"
        /\ out'.name = "by_category"
        /\ Squeezed(out'.location) = Squeezed(out.location)
        /\ Squeezed(out'.category) = Squeezed(out.category)) =>
          /\ out'.result = "found"
          /\ out.resource \in Elems(out'.resources)]_vars

\* C13, as the program has it: after an accepted add_resource(loc, cat,
\* name), a following search by category with a location and a category that
\* differ from loc and cat only by letter case or by leading and trailing
\* whitespace reports a sequence that includes the trimmed name.
C13_RoundTrip ==
    [][(/\ out.name = "add"
        /\ out.result = "accepted"
        /\ out'.name = "by_category"
        /\ Normalized(out'.location) = Normalized(out.location)
        /\ Normalized(out'.category) = Normalized(out.category)) =>
          /\ out'.result = "found"
          /\ Trimmed(out.resource) \in Elems(out'.resources)]_vars

\* a search by category, its location and category spelled otherwise than
\* the keys, has reported a bucket that holds a name added with blanks around it
C13_Witness ==
    /\ out.name = "by_category"
    /\ out.result = "found"
    /\ out.location # Normalized(out.location)
    /\ out.category # Normalized(out.category)
    /\ s_Y \in Elems(out.resources)

\* C14: a search by location reports the whole category-to-resources
\* mapping of the location exactly when the trimmed, lowercased input is a
\* location key of the catalog, and not-found otherwise: the sorted binary
\* search agrees with key membership.
C14_LocationLookup ==
    [][out'.name = "by_location" =>
          LET K == {i \in 1..Len(resource_db) :
                       resource_db[i].key = Normalized(out'.location)}
          IN IF K # {}
             THEN /\ out'.result = "found"
                  /\ \E i \in K : out'.resources = resource_db[i].value
             ELSE out'.result = "location"]_vars

\* a search with blanks behind the location has found it in a catalog whose
\* locations were not added in ascending order
C14_Witness ==
    /\ out.name = "by_location"
    /\ out.result = "found"
    /\ out.location # Normalized(out.location)
    /\ Len(resource_db) = 2
    /\ str_less(resource_db[2].key, resource_db[1].key)
    /\ resource_db[2].key = Normalized(out.location)

\* a location or category that, its blanks removed, is made of letters only
LettersAndBlanks(str) ==
    /\ \E i \in 1..Len(str) : str[i] # " "
    /\ \A i \in 1..Len(str) : str[i] = " " \/ str[i] \in UpperSet \cup Elems(Lower)

\* C15: add_resource rejects the call and leaves the whole catalog unchanged
\* whenever the location or the category, its blanks removed, is not made of
\* letters only, or the name is empty after trimming, whichever of the three
\* arguments is the invalid one.
C15_RejectLeavesCatalog ==
    [][(/\ out'.name = "add"
        /\ \/ ~LettersAndBlanks(out'.location)
           \/ ~LettersAndBlanks(out'.category)
           \/ Trimmed(out'.resource) = <<>>) =>
          /\ out'.result = "rejected"
          /\ resource_db' = resource_db]_vars

\* a call has been rejected for its category alone, its location being valid
\* and not yet in the catalog
C15_Witness ==
    /\ out.name = "add"
    /\ out.result = "rejected"
    /\ LettersAndBlanks(out.location)
    /\ ~LettersAndBlanks(out.category)
    /\ \A i \in 1..Len(resource_db) : resource_db[i].key # Normalized(out.location)

\* the (location, category) pairs that have a bucket, and a pair's bucket
\* (empty when it has none)
BucketKeys(db) ==
    UNION {{<<db[i].key, db[i].value[j].key>> : j \in 1..Len(db[i].value)} : i \in 1..Len(db)}

Bucket(db, k) ==
    IF k \in BucketKeys(db)
    THEN LET i == CHOOSE i \in 1..Len(db) : db[i].key = k[1]
             j == CHOOSE j \in 1..Len(db[i].value) : db[i].value[j].key = k[2]
         IN db[i].value[j].value
    ELSE <<>>

\* C16: an accepted add_resource appends the name at the end of the bucket
\* of the normalized (location, category): the bucket grows by exactly one
\* element, also when the name is in it already, its earlier elements keep
\* their order, and every other bucket is unchanged.
C16_AppendToBucket ==
    [][(out'.name = "add" /\ out'.result = "accepted") =>
          LET k == <<Normalized(out'.location), Normalized(out'.category)>> IN
          /\ Bucket(resource_db', k) = Append(Bucket(resource_db, k), Trimmed(out'.resource))
          /\ BucketKeys(resource_db') = BucketKeys(resource_db) \cup {k}
          /\ \A other \in BucketKeys(resource_db) \ {k} :
                 Bucket(resource_db', other) = Bucket(resource_db, other)]_vars

\* a name has been added to a bucket that held it already, behind another name
C16_Witness ==
    /\ out.name = "add"
    /\ out.result = "accepted"
    /\ LET names == Bucket(resource_db, <<Normalized(out.location), Normalized(out.category)>>)
       IN /\ Len(names) = 3
          /\ names[1] = names[3]
          /\ names[2] # names[3]

C18_CategoryLookup ==
    [][out'.name = "by_category" =>
          LET l == Normalized(out'.location)
              c == Normalized(out'.category)
          IN IF \A i \in 1..Len(resource_db) : resource_db[i].key # l
             THEN out'.result = "location"
             ELSE IF <<l, c>> \notin BucketKeys(resource_db)
                  THEN out'.result = "category"
                  ELSE /\ out'.result = "found"
                       /\ out'.resources = Bucket(resource_db, <<l, c>>)]_vars

\* a search has failed at the category stage in a location of two categories
C18_Witness ==
    /\ out.name = "by_category"
    /\ out.result = "category"
    /\ \E i \in 1..Len(resource_db) :
          /\ resource_db[i].key = Normalized(out.location)
          /\ Len(resource_db[i].value) = 2

----------------------------------------------------------------------------
(* Properties of _binary_search.                                           *)

\* the list is in ascending order, no string twice
Ascending(list) == \A i \in 1..(Len(list) - 1) : str_less(list[i], list[i + 1])

\* C19: on an ascending list of unique strings, searched over its whole
\* range, _binary_search returns an index of the target when the target is
\* in the list and -1 when it is not, wherever the target stands or falls.
C19_BinarySearch ==
    (out.name = "searched" /\ Ascending(out.data)) =>
        IF out.target \in Elems(out.data)
        THEN /\ out.result \in 0..(Len(out.data) - 1)
             /\ out.data[out.result + 1] = out.target
        ELSE out.result = -1

\* a target that falls between the second and the third of three strings
\* has not been found
C19_Witness ==
    /\ out.name = "searched"
    /\ Len(out.data) = 3
    /\ Ascending(out.data)
    /\ str_less(out.data[2], out.target)
    /\ str_less(out.target, out.data[3])
    /\ out.result = -1

----------------------------------------------------------------------------
(* Properties of the searches.                                             *)

\* C20: a search by location or by category leaves the catalog as it was:
\* the same locations and categories in the same stored order, the same
\* names in every bucket.
C20_SearchKeepsCatalog ==
    [][out'.name \in {"by_location", "by_category"} => resource_db' = resource_db]_vars

\* a search has sorted the keys of a catalog of three locations that are not
\* stored in ascending order, and has found the one stored first
C20_Witness ==
    /\ out.name = "by_location"
    /\ out.result = "found"
    /\ Len(resource_db) = 3
    /\ ~Ascending(dict_keys(resource_db))
    /\ resource_db[1].key = Normalized(out.location)

----------------------------------------------------------------------------
(* Determinism of find_mentor.                                             *)

\* the seekers that ask what `immigrant` asks: the same language to practice,
\* any identity, goals and progress log
SameQuery(immigrant) ==
    { [immigrant EXCEPT !.email = e, !.goals = g, !.progress_log = l] :
        e \in SeekerEmails, g \in {FirstGoals} \cup GoalLists,
        l \in {<<>>, immigrant.progress_log,
               update_progress(immigrant, "Mentor Matched", MatchedWith(<<"B","o">>)).progress_log} }

\* C21: find is deterministic in the registry and the query: on a copy of the
\* registry, the same expertise asked by any seeker with the same language to
\* practice returns the same mentor (or none in both) and leaves the copy in
\* the state the call has left the registry in, with the same write to the store.
C21_Deterministic ==
    [][op'.name = "find" =>
          \A other \in SameQuery(immigrants_db[op'.email]) :
              LET copy == find_mentor(mentors, other, op'.expertise) IN
              /\ copy.result = op'.result
              /\ copy.mentors = mentors'
              /\ copy.saved = (IF op'.result # 0 THEN <<mentors_json'>> ELSE <<>>)]_vars

\* a find has returned a mentor to a seeker who had been matched before
C21_Witness ==
    /\ op.name = "find"
    /\ op.result # 0
    /\ Len(immigrants_db[op.email].progress_log) = 2

----------------------------------------------------------------------------
(* Failures of the stores.                                                 *)

\* C22: a persistence failure is never fatal.  A start on stores that fail
\* to read reaches the main menu, with no seekers when immigrants.json is
\* not a readable mapping and the demo registry when mentors.json is not;
\* a find whose write to mentors.json fails still returns the mentor, books
\* it and logs the match, and the exit whose writes fail still exits.
C22_NeverFatal ==
    [][/\ menu = "starting" =>
            /\ menu' = "main"
            /\ files["immigrants.json"] \notin {"ok", "read_only"} => immigrants_db' = <<>>
            /\ files["mentors.json"] \notin {"ok", "read_only"} =>
                   mentors' = prepopulate_volunteers(<<>>)
       /\ (op'.name = "find" /\ op'.result # 0 /\ write_fails(files["mentors.json"])) =>
            /\ menu' = menu
            /\ ~mentors'[op'.result].availability
            /\ Len(immigrants_db'[op'.email].progress_log)
                   = Len(immigrants_db[op'.email].progress_log) + 1
       /\ op'.name = "exit" => menu' = "exited"]_vars

\* C26: at the start of a process each of the three stores is opened once,
\* and the catalog holds the entries of resources.json when that store holds
\* entries, the baked-in dataset only when it is empty or missing.
C26_CatalogFromStore ==
    [][(menu = "starting" /\ menu' = "main") =>
          LET start == main_menu_start(files, mentors_json, immigrants_json) IN
          /\ \A f \in Stores :
                 Cardinality({i \in 1..Len(start.opened) : start.opened[i] = f}) = 1
          /\ resource_db' = IF files["resources.json"] = "ok" /\ resources_json # <<>>
                            THEN resources_json
                            ELSE prepopulate_resources(<<>>)]_vars

----------------------------------------------------------------------------
(* The seeker records within a run and across runs.                        *)

\* log `a` is a prefix of log `b`
IsPrefix(a, b) == Len(a) <= Len(b) /\ SubSeq(b, 1, Len(a)) = a

\* C23: within a run the progress log of every seeker only grows at its end:
\* every step of the process (a find, a goal update, a move between menus,
\* the exit) keeps every seeker and leaves the log it had as a prefix of the
\* log it has, so that the log at any later state of the run extends the log
\* at any earlier state.
C23_AppendOnly ==
    [][menu # "exited" =>
          \A e \in DOMAIN immigrants_db :
              /\ e \in DOMAIN immigrants_db'
              /\ IsPrefix(immigrants_db[e].progress_log, immigrants_db'[e].progress_log)]_vars

\* a seeker with two entries has changed goals and is back in the menu
C23_Witness ==
    /\ menu = "immigrant"
    /\ Len(immigrants_db[current_immigrant].progress_log) = 2
    /\ immigrants_db[current_immigrant].goals \in GoalLists
    /\ op.name = "menu"

\* C24: a seeker created in a run that ends by the exit of the main menu (the
\* seekers in memory that immigrants.json did not hold) is, in the process
\* that starts on the store the exit has written, under the same email and
\* with the same name, languages, location, goals and progress log; and the
\* sign-in of an email that the store holds creates no seeker.
C24_Lifecycle ==
    [][/\ op'.name = "exit" =>
            \A e \in DOMAIN immigrants_db \ DOMAIN immigrants_json :
                LET next == load_immigrants(immigrants_json') IN
                /\ e \in DOMAIN next
                /\ next[e] = immigrants_db[e]
       /\ (menu = "exited" /\ menu' = "main") =>
            immigrants_db' = load_immigrants(immigrants_json)
       /\ (menu = "main" /\ menu' = "immigrant"
            /\ current_immigrant' \in DOMAIN immigrants_json) =>
            immigrants_db' = immigrants_db]_vars

\* the seeker of an earlier run, who left it with a match in the log and
\* other goals than the first, has signed in again
C24_Witness ==
    /\ menu = "immigrant"
    /\ op.name = "menu"
    /\ current_immigrant \in DOMAIN immigrants_json
    /\ immigrants_json[current_immigrant].progress_log # <<>>
    /\ immigrants_json[current_immigrant].goals \in GoalLists
    /\ immigrants_db[current_immigrant] = immigrants_json[current_immigrant]

----------------------------------------------------------------------------
(* The outcomes of find_mentor, and two calls of it.                       *)

\* the calls that have returned
Returned == {c \in 1..Len(calls.list) : calls.list[c].line = "return"}

\* the loop of call c has ended without a match
Missed(c) == calls.list[c].raised = "" /\ calls.list[c].printed = "No mentor available."

\* call c has failed: an exception was raised in it
Failed(c) == calls.list[c].raised # ""

\* C25: find tells its caller a miss from a failure: what a call in which no
\* mentor matched returns differs from what a call returns in which the
\* argument was no seeker, the expertise no string or an attribute missing.
C25_MissDistinctFromError ==
    \A c \in Returned, d \in Returned :
        (Missed(c) /\ Failed(d)) => calls.list[c].returned # calls.list[d].returned

\* two calls of different seekers have returned the same mentor and each
\* seeker's log records a match with that mentor
DoubleMatch ==
    \E c \in Returned, d \in Returned :
        LET first == calls.list[c]
            second == calls.list[d]
        IN /\ c # d
           /\ first.returned # 0
           /\ first.returned = second.returned
           /\ first.immigrant.email # second.immigrant.email
           /\ first.expertise = second.expertise
           /\ \A call \in {first, second} :
                  \E k \in 1..Len(immigrants_db[call.immigrant.email].progress_log) :
                      immigrants_db[call.immigrant.email].progress_log[k].details
                          = MatchedWith(mentors[call.returned].name)

\* C27: the check of the conditions and the assignment of availability are
\* separate steps.  When the statements of two calls may interleave, two
\* seekers with the same request can both be returned the same mentor (the
\* state C27_Witness); when each call returns before the next starts, no such
\* state is reachable.
C27_DoubleMatchNeedsInterleaving == DoubleMatch => calls.concurrent

\* interleaved calls have matched one mentor with two seekers
C27_Witness == calls.concurrent /\ DoubleMatch

----------------------------------------------------------------------------
(* What the searches give to _binary_search.                               *)

\* sorted_locations = self._selection_sort(list(self.resource_db.keys()))
passed_locations(db) == selection_sort(dict_keys(db))

\* sorted_categories = self._selection_sort(list(self.resource_db[actual_location].keys()))
passed_categories(db, actual_location) == selection_sort(dict_keys(dict_get(db, actual_location)))

\* `list` holds the elements of `keys`, each once
PermutationOf(list, keys) ==
    /\ Len(list) = Len(keys)
    /\ \A i \in 1..Len(keys) : \E j \in 1..Len(list) : list[j] = keys[i]
    /\ \A i, j \in 1..Len(list) : i # j => list[i] # list[j]

\* C28: for every catalog that calls of add_resource build, the list of
\* locations that the two searches give to _binary_search is in strictly
\* ascending order (so without duplicates) and is a permutation of the
\* catalog's location keys, and so is, for every location that a search can
\* find, the list of that location's categories.
C28_SortedBeforeSearch ==
    /\ Ascending(passed_locations(resource_db))
    /\ PermutationOf(passed_locations(resource_db), dict_keys(resource_db))
    /\ \A i \in 1..Len(resource_db) :
           LET actual_location == resource_db[i].key IN
           /\ Ascending(passed_categories(resource_db, actual_location))
           /\ PermutationOf(passed_categories(resource_db, actual_location),
                            dict_keys(dict_get(resource_db, actual_location)))

\* a search by category has found its bucket in a catalog whose locations and
\* whose categories of the found location were both inserted out of order
C28_Witness ==
    /\ out.name = "by_category"
    /\ out.result = "found"
    /\ Len(resource_db) >= 2
    /\ ~Ascending(dict_keys(resource_db))
    /\ \E i \in 1..Len(resource_db) :
           /\ resource_db[i].key = str_lower(str_strip(out.location))
           /\ ~Ascending(dict_keys(resource_db[i].value))

----------------------------------------------------------------------------
(* The mentors store written and loaded.                                   *)

\* C29: for every registry of a run, the registry that the next process
\* builds from the store written from it has as many records, in the same
\* order, each with the same name, email, expertise up to case, languages
\* and availability.
C29_MentorRoundTrip ==
    LET loaded == load_mentors(save_data("ok", mentors_json, mentors_dict(mentors))) IN
    /\ Len(loaded) = Len(mentors)
    /\ \A i \in 1..Len(mentors) :
           i <= Len(loaded) =>
               /\ loaded[i].name = mentors[i].name
               /\ loaded[i].email = mentors[i].email
               /\ str_lower(loaded[i].expertise) = str_lower(mentors[i].expertise)
               /\ loaded[i].available_languages = mentors[i].available_languages
               /\ loaded[i].availability = mentors[i].availability

----------------------------------------------------------------------------
(* Termination of _binary_search.                                          *)

\* C30: called on the whole range of any list (the empty one included) with
\* any target, _binary_search returns: every call it makes to itself is on a
\* range whose right - left is smaller than its caller's, every index it
\* reads is one of 0..len(list)-1, no read raises, and the first call
\* eventually returns.
C30_Terminates ==
    /\ [][out'.name \in {"call", "returned", "raise"} =>
             /\ out'.name # "raise"
             /\ \A index \in out'.read : index \in 0..(Len(out'.data) - 1)
             /\ (out.name = "call" /\ out'.name = "call") =>
                    out'.right - out'.left < out.right - out.left]_vars
    /\ <>(out.name = "returned")

\* the search of a list of MaxKeys keys has returned -1 after two reads
C30_Witness ==
    /\ out.name = "returned"
    /\ Len(out.data) = MaxKeys
    /\ Cardinality(out.read) = 2
    /\ out.result = -1

=============================================================================
